---------------------------- MODULE Spec2Model ----------------------------
(***************************************************************************)
(* A model of podhmo/reflect-shape's metadata lookup (metadata/lookup.go)  *)
(* and of the lazily built session of Config.Extract (api.go).             *)
(*                                                                         *)
(* Strings are sequences of one-character strings, so that Split, Cut,     *)
(* Trim and TrimSpace are computed character by character, as the Go       *)
(* standard library computes them.                                         *)
(*                                                                         *)
(* Everything outside the two files is environment: the runtime symbol     *)
(* table, the parser, the commentof indexer, packages.Load and             *)
(* debug.ReadBuildInfo.  Each call draws what they answer from bounded     *)
(* sets, and the call record keeps what was drawn next to what the code    *)
(* returned.                                                               *)
(***************************************************************************)
EXTENDS Integers, Sequences, FiniteSets, TLC

VARIABLES
    l,          \* the metadata.Lookup the lookups run on
    call,       \* the last call on the metadata API: its inputs and what it returned
    c,          \* the reflectshape.Config: public fields, and the private lookup and extractor
    heap,       \* the objects Config.Extract has constructed, by address
    last        \* the last Config.Extract call: which Extractor it was delegated to

vars == <<l, call, c, heap, last>>

(***************************************************************************)
(* Bounds of the model.                                                    *)
(***************************************************************************)
MaxSymLen == 3      \* the longest unstructured runtime symbol
MaxArgs == 3        \* the most parameters (or results) of a declaration
MaxFields == 2      \* the most fields of a struct declaration
MaxDocLen == 2      \* the longest comment text
MaxPkgs == 2        \* the most candidate packages packages.Load returns
MaxCalls == 4       \* the most Config.Extract calls on one Config

\* A Go pointer (or error) value: nil, or the address of one value.
Nil == <<>>
Ptr(v) == <<v>>

(***************************************************************************)
(* Strings.                                                                *)
(***************************************************************************)
Str(n, alphabet) == UNION {[1..k -> alphabet] : k \in 0..n}

RECURSIVE Index(_, _, _)
\* strings.Index for a one-character separator, searching from position i; 0: absent
Index(s, sep, i) ==
    IF i > Len(s) THEN 0
    ELSE IF s[i] = sep THEN i
    ELSE Index(s, sep, i + 1)

\* strings.Cut(s, sep)
Cut(s, sep) ==
    LET i == Index(s, sep, 1) IN
    IF i = 0 THEN [before |-> s, after |-> <<>>, found |-> FALSE]
    ELSE [before |-> SubSeq(s, 1, i - 1), after |-> SubSeq(s, i + 1, Len(s)), found |-> TRUE]

RECURSIVE Split(_, _)
\* strings.Split(s, sep): the pieces between the separators, at least one
Split(s, sep) ==
    LET i == Index(s, sep, 1) IN
    IF i = 0 THEN <<s>>
    ELSE <<SubSeq(s, 1, i - 1)>> \o Split(SubSeq(s, i + 1, Len(s)), sep)

RECURSIVE TrimLeft(_, _)
TrimLeft(s, cutset) ==
    IF s # <<>> /\ s[1] \in cutset THEN TrimLeft(Tail(s), cutset) ELSE s

RECURSIVE TrimRight(_, _)
TrimRight(s, cutset) ==
    IF s # <<>> /\ s[Len(s)] \in cutset THEN TrimRight(SubSeq(s, 1, Len(s) - 1), cutset) ELSE s

\* strings.Trim(s, cutset): leading and trailing characters of cutset removed
Trim(s, cutset) == TrimRight(TrimLeft(s, cutset), cutset)

WhiteSpace == {" ", "\n", "\t"}

\* strings.TrimSpace(s)
TrimSpace(s) == Trim(s, WhiteSpace)

(***************************************************************************)
(* Errors.  ErrNotFound is the package's sentinel; fmt.Errorf with %w      *)
(* wraps an error, and errors.Is sees through the wrapping.                *)
(***************************************************************************)
\* An error is its format, what the format was filled with, and the chain
\* of the errors it wraps (each by its format).
ErrNotFound == Ptr([msg |-> "not found", arg |-> <<>>, chain |-> <<>>])

\* fmt.Errorf(msg, arg): wraps nothing
Errorf(msg, arg) == Ptr([msg |-> msg, arg |-> arg, chain |-> <<>>])

\* fmt.Errorf(msg + " %w", arg, err)
ErrorfW(msg, arg, err) ==
    Ptr([msg |-> msg, arg |-> arg, chain |-> <<err[1].msg>> \o err[1].chain])

\* errors.Is(err, target), target a sentinel
ErrorsIs(err, target) ==
    /\ err # Nil
    /\ \/ err[1].msg = target[1].msg
       \/ \E i \in 1..Len(err[1].chain) : err[1].chain[i] = target[1].msg

\* what the parser, the indexer and packages.Load fail with: errors of their own
ErrParse == Errorf("open: no such file or directory", <<>>)
ErrCollect == Errorf("commentof: collect failed", <<>>)
ErrLoad == Errorf("packages: driver failed", <<>>)

(***************************************************************************)
(* metadata.Lookup                                                         *)
(***************************************************************************)
NewLookup(fset) ==
    [Fset |-> fset, IncludeGoTestFiles |-> FALSE, IncludeUnexported |-> FALSE]

\* what Config.Extract sets on the Lookup it has just constructed
Configured(lookup, includeGoTestFiles) ==
    [lookup EXCEPT !.IncludeGoTestFiles = includeGoTestFiles, !.IncludeUnexported = TRUE]

(***************************************************************************)
(* Runtime symbols.                                                        *)
(***************************************************************************)
Idents == {<<"T">>, <<"F">>, <<"m">>}
SymChars == {"/", ".", "(", "*", ")", "T", "m"}
PkgName == <<"p">>
Prefixes == {<<>>, <<"a", "/">>, <<"a", ".", "b", "/">>}
FuncLit == <<"f", "u", "n", "c", "1">>
FmSuffix == <<"-", "f", "m">>

\* <prefix><pkg>.<function>
FuncSym(pre, f) == pre \o PkgName \o <<".">> \o f
\* <prefix><pkg>.<recv>.<method>
ValueSym(pre, t, m) == pre \o PkgName \o <<".">> \o t \o <<".">> \o m
\* <prefix><pkg>.(*<recv>).<method>
PtrSym(pre, t, m) == pre \o PkgName \o <<".", "(", "*">> \o t \o <<")", ".">> \o m
\* <prefix><pkg>.<function>.func1: a function literal inside <function>
ClosureSym(pre, f) == FuncSym(pre, f) \o <<".">> \o FuncLit
\* <prefix><pkg>.<recv>.<method>-fm: a method value
MethodValueSym(pre, t, m) == ValueSym(pre, t, m) \o FmSuffix

Symbols ==
    Str(MaxSymLen, SymChars)
    \cup {FuncSym(pre, f) : pre \in Prefixes, f \in Idents}
    \cup {ValueSym(pre, t, m) : pre \in Prefixes, t \in Idents, m \in Idents}
    \cup {PtrSym(pre, t, m) : pre \in Prefixes, t \in Idents, m \in Idents}
    \cup {ClosureSym(pre, f) : pre \in Prefixes, f \in Idents}
    \cup {MethodValueSym(pre, t, m) : pre \in Prefixes, t \in Idents, m \in Idents}

\* a slip: the receiver keeps its markers
DemangleKeepingMarkers(fullname) ==
    LET parts == Split(fullname, "/")
        lastpart == parts[Len(parts)]
        c1 == Cut(lastpart, ".")
        c2 == Cut(c1.after, ".")
    IN  [isFunc |-> c1.found,
         isMethod |-> c1.found /\ c2.found,
         recv |-> IF c2.found THEN c2.before ELSE <<>>,
         name |-> IF c2.found THEN c2.after ELSE c2.before]

\* the parts of rfunc.Name() the lookup goes by
Demangle(fullname) ==
    LET parts == Split(fullname, "/")
        lastpart == parts[Len(parts)]
        c1 == Cut(lastpart, ".")
        c2 == Cut(c1.after, ".")
    IN  [isFunc |-> c1.found,
         isMethod |-> c1.found /\ c2.found,
         recv |-> IF c2.found THEN Trim(c2.before, {"(", "*", ")"}) ELSE <<>>,
         name |-> IF c2.found THEN c2.after ELSE c2.before]

(***************************************************************************)
(* The index commentof.File builds of one parsed file: the function names  *)
(* it holds, and per type name the method names.  A record of the index is *)
(* named by its place in it (the Go code holds a pointer to it).           *)
(***************************************************************************)
FuncKeys == {<<"F">>, <<"T">>}
TypeKeys == {<<"T">>, <<"F">>}
MethodKeys == {<<"m">>}

FileIndexes ==
    {[Functions |-> fs, Types |-> ts] :
        fs \in SUBSET FuncKeys,
        ts \in UNION {[d -> SUBSET MethodKeys] : d \in SUBSET TypeKeys}}

FunctionRecord(name) == [table |-> "Functions", recv |-> <<>>, name |-> name]
MethodRecord(recv, name) == [table |-> "Methods", recv |-> recv, name |-> name]

\* a slip: a name the index does not hold is reported by a nil Func alone
SelectFuncSilent(pc, fullname, p) ==
    LET d == Demangle(fullname) IN
    IF ~d.isFunc
    THEN [ret |-> Nil, err |-> Errorf("unexpected func", fullname)]
    ELSE IF d.isMethod
    THEN IF d.recv \notin DOMAIN p.Types \/ d.name \notin p.Types[d.recv]
         THEN [ret |-> Nil, err |-> Nil]
         ELSE [ret |-> Ptr([pc |-> pc, Raw |-> MethodRecord(d.recv, d.name), Recv |-> d.recv]),
               err |-> Nil]
    ELSE IF d.name \notin p.Functions
         THEN [ret |-> Nil, err |-> Nil]
         ELSE [ret |-> Ptr([pc |-> pc, Raw |-> FunctionRecord(d.name), Recv |-> <<>>]),
               err |-> Nil]

\* LookupFromFuncForPC from the split of the name on: the record, or the error
SelectFunc(pc, fullname, p) ==
    LET d == Demangle(fullname) IN
    IF ~d.isFunc
    THEN [ret |-> Nil, err |-> Errorf("unexpected func", fullname)]
    ELSE IF d.isMethod
    THEN IF d.recv \notin DOMAIN p.Types
         THEN [ret |-> Nil, err |-> ErrorfW("lookup metadata of method", fullname, ErrNotFound)]
         ELSE IF d.name \notin p.Types[d.recv]
         THEN [ret |-> Nil, err |-> ErrorfW("lookup metadata of method", fullname, ErrNotFound)]
         ELSE [ret |-> Ptr([pc |-> pc, Raw |-> MethodRecord(d.recv, d.name), Recv |-> d.recv]),
               err |-> Nil]
    ELSE IF d.name \notin p.Functions
         THEN [ret |-> Nil, err |-> ErrorfW("lookup metadata of function", fullname, ErrNotFound)]
         ELSE [ret |-> Ptr([pc |-> pc, Raw |-> FunctionRecord(d.name), Recv |-> <<>>]),
               err |-> Nil]

\* Lookup.LookupFromFuncForPC(pc).  The environment answers: rfunc (the symbol
\* of pc, or nil), the parsed file (nil when the source cannot be read), and
\* the index of the file (or the indexer's error).
LookupFromFuncForPC(pc, rfunc, f, p) ==
    LET r == IF rfunc = Nil
             THEN [ret |-> Nil, err |-> Errorf("cannot find runtime.Func", <<>>)]
             ELSE IF f = Nil
             THEN [ret |-> Nil, err |-> ErrParse]
             ELSE IF p = Nil
             THEN [ret |-> Nil, err |-> ErrCollect]
             ELSE SelectFunc(pc, rfunc[1], p[1])
    IN  [op |-> "LookupFromFuncForPC", pc |-> pc, rfunc |-> rfunc, f |-> f, p |-> p,
         includeUnexported |-> l.IncludeUnexported, ret |-> r.ret, err |-> r.err]

Idle == call.op = "none"

CallLookupFromFunc ==
    /\ Idle
    /\ \E rfunc \in {Nil} \cup {Ptr(s) : s \in Symbols},
          f \in {Nil, Ptr("file")},
          p \in {Nil} \cup {Ptr(x) : x \in FileIndexes} :
          \* what the code does not get to ask for is not drawn
          /\ rfunc = Nil => f = Nil
          /\ f = Nil => p = Nil
          /\ call' = LookupFromFuncForPC(1, rfunc, f, p)
    /\ UNCHANGED <<l, c, heap, last>>

(***************************************************************************)
(* Func.Args and Func.Returns.  The record m.Raw points to was built by    *)
(* the indexer from the declaration: ParamNames holds one identifier per   *)
(* declared parameter, in order, and Params maps an identifier to the      *)
(* field with the parameter's name ("" for an unnamed one).                *)
(***************************************************************************)
ParamNameSet == {"", "a", "b"}
ParamIds == {"a", "b", "#"}

\* the parameter lists of a declaration: a name per parameter, the last one
\* possibly variadic
Declared ==
    {[names |-> ns, variadic |-> v] :
        ns \in Str(MaxArgs, ParamNameSet), v \in BOOLEAN} \ {[names |-> <<>>, variadic |-> TRUE]}

\* the identifiers an indexer may give the parameters: one per position, two
\* positions sharing one only if they share the name
IdsOf(names) ==
    {ids \in [1..Len(names) -> ParamIds] :
        \A i, j \in 1..Len(names) : ids[i] = ids[j] => names[i] = names[j]}

\* the two fields of collect.Func for one parameter list
Collected(names, ids) ==
    [order |-> ids,
     fields |-> [id \in {ids[i] : i \in 1..Len(ids)} |->
                    [Name |-> names[CHOOSE i \in 1..Len(ids) : ids[i] = id]]]]

RECURSIVE NamesLoop(_, _, _, _)
\* for i, id := range order { names[i] = fields[id].Name }
NamesLoop(names, order, fields, i) ==
    IF i > Len(order) THEN names
    ELSE NamesLoop([names EXCEPT ![i] = fields[order[i]].Name], order, fields, i + 1)

RECURSIVE DropUnnamed(_)
DropUnnamed(names) ==
    IF names = <<>> THEN <<>>
    ELSE IF Head(names) = "" THEN DropUnnamed(Tail(names))
    ELSE <<Head(names)>> \o DropUnnamed(Tail(names))

\* a slip: names = append(names, name) for the named parameters only
ArgsDroppingUnnamed(m) ==
    DropUnnamed(NamesLoop([i \in 1..Len(m.Raw.ParamNames) |-> ""],
                          m.Raw.ParamNames, m.Raw.Params, 1))

\* Func.Args()
Args(m) ==
    NamesLoop([i \in 1..Len(m.Raw.ParamNames) |-> ""], m.Raw.ParamNames, m.Raw.Params, 1)

\* Func.Returns()
Returns(m) ==
    NamesLoop([i \in 1..Len(m.Raw.ReturnNames) |-> ""], m.Raw.ReturnNames, m.Raw.Returns, 1)

\* the Funcs a lookup returns
Funcs ==
    {[pc |-> 1, Raw |-> FunctionRecord(n), Recv |-> <<>>] : n \in FuncKeys}
    \cup {[pc |-> 1, Raw |-> MethodRecord(t, n), Recv |-> t] : t \in TypeKeys, n \in MethodKeys}

CallArgs ==
    /\ Idle
    /\ \E fn \in Funcs, d \in Declared : \E ids \in IdsOf(d.names) :
          LET rec == Collected(d.names, ids)
              m == [fn EXCEPT !.Raw =
                       [key |-> @, ParamNames |-> rec.order, Params |-> rec.fields]]
          IN  call' = [op |-> "Func.Args", m |-> m, declared |-> d, ret |-> Args(m)]
    /\ UNCHANGED <<l, c, heap, last>>

CallReturns ==
    /\ Idle
    /\ \E fn \in Funcs, d \in Declared : \E ids \in IdsOf(d.names) :
          LET rec == Collected(d.names, ids)
              m == [fn EXCEPT !.Raw =
                       [key |-> @, ReturnNames |-> rec.order, Returns |-> rec.fields]]
          IN  /\ ~d.variadic
              /\ call' = [op |-> "Func.Returns", m |-> m, declared |-> d, ret |-> Returns(m)]
    /\ UNCHANGED <<l, c, heap, last>>

(***************************************************************************)
(* Lookup.LookupFromStructForReflectType.  The environment answers: the    *)
(* reflected type's name and package path, the build info of the binary    *)
(* (or none), and what packages.Load returns: an error, or the candidate   *)
(* packages in load order, each with its load errors, its package path     *)
(* and the index commentof.Package builds of it (or the indexer's error).  *)
(***************************************************************************)
TypeNames == {"User", "Admin"}
PkgPaths == {"x/app", "x/lib"}

\* a slip: the sentinel is loaded as it is
ResolvePkgPathKeepingMain(pkgpath, binfo) ==
    IF pkgpath = "main" /\ binfo = Nil
    THEN [ok |-> FALSE, pkgpath |-> pkgpath]
    ELSE [ok |-> TRUE, pkgpath |-> pkgpath]

\* the first lines: the package path to load
ResolvePkgPath(pkgpath, binfo) ==
    IF pkgpath = "main"
    THEN IF binfo = Nil
         THEN [ok |-> FALSE, pkgpath |-> pkgpath]
         ELSE [ok |-> TRUE, pkgpath |-> binfo[1].Path]
    ELSE [ok |-> TRUE, pkgpath |-> pkgpath]

StructRecord(i, name) == [pkg |-> i, name |-> name]

RECURSIVE ScanPkgsTakingErrored(_, _, _, _)
\* a slip: a package with load errors is indexed like the others
ScanPkgsTakingErrored(pkgs, pkgpath, obname, i) ==
    IF i > Len(pkgs)
    THEN [ret |-> Nil, err |-> ErrorfW("lookup metadata is failed", obname, ErrNotFound)]
    ELSE IF pkgs[i].PkgPath # pkgpath
    THEN ScanPkgsTakingErrored(pkgs, pkgpath, obname, i + 1)
    ELSE IF pkgs[i].p = Nil
    THEN [ret |-> Nil, err |-> ErrorfW("collect", obname, ErrCollect)]
    ELSE IF obname \notin pkgs[i].p[1].Types
    THEN ScanPkgsTakingErrored(pkgs, pkgpath, obname, i + 1)
    ELSE [ret |-> Ptr([Raw |-> StructRecord(i, obname)]), err |-> Nil]

RECURSIVE ScanPkgsNilNil(_, _, _, _)
\* a slip: the loop runs out and nothing is reported
ScanPkgsNilNil(pkgs, pkgpath, obname, i) ==
    IF i > Len(pkgs)
    THEN [ret |-> Nil, err |-> Nil]
    ELSE IF pkgs[i].Errors
    THEN ScanPkgsNilNil(pkgs, pkgpath, obname, i + 1)
    ELSE IF pkgs[i].PkgPath # pkgpath
    THEN ScanPkgsNilNil(pkgs, pkgpath, obname, i + 1)
    ELSE IF pkgs[i].p = Nil
    THEN [ret |-> Nil, err |-> ErrorfW("collect", obname, ErrCollect)]
    ELSE IF obname \notin pkgs[i].p[1].Types
    THEN ScanPkgsNilNil(pkgs, pkgpath, obname, i + 1)
    ELSE [ret |-> Ptr([Raw |-> StructRecord(i, obname)]), err |-> Nil]

RECURSIVE ScanPkgs(_, _, _, _)
\* for _, pkg := range pkgs { ... } and the return after it, from pkgs[i] on
ScanPkgs(pkgs, pkgpath, obname, i) ==
    IF i > Len(pkgs)
    THEN [ret |-> Nil, err |-> ErrorfW("lookup metadata is failed", obname, ErrNotFound)]
    ELSE IF pkgs[i].Errors
    THEN ScanPkgs(pkgs, pkgpath, obname, i + 1)
    ELSE IF pkgs[i].PkgPath # pkgpath
    THEN ScanPkgs(pkgs, pkgpath, obname, i + 1)
    ELSE IF pkgs[i].p = Nil
    THEN [ret |-> Nil, err |-> ErrorfW("collect", obname, ErrCollect)]
    ELSE IF obname \notin pkgs[i].p[1].Types
    THEN ScanPkgs(pkgs, pkgpath, obname, i + 1)
    ELSE [ret |-> Ptr([Raw |-> StructRecord(i, obname)]), err |-> Nil]

\* Lookup.LookupFromStructForReflectType(rt); loaded is the pattern handed to
\* packages.Load, Nil when it is not called
LookupFromStructForReflectType(rt, binfo, loadErr, pkgs) ==
    LET path == ResolvePkgPath(rt.PkgPath, binfo)
        r == IF ~path.ok
             THEN [ret |-> Nil, err |-> ErrNotFound]
             ELSE IF loadErr # Nil
             THEN [ret |-> Nil, err |-> ErrorfW("packages.Load()", "", loadErr)]
             ELSE ScanPkgs(pkgs, path.pkgpath, rt.Name, 1)
    IN  [op |-> "LookupFromStructForReflectType", rt |-> rt, binfo |-> binfo,
         loaded |-> IF path.ok THEN Ptr(path.pkgpath) ELSE Nil,
         tests |-> l.IncludeGoTestFiles, includeUnexported |-> l.IncludeUnexported,
         loadErr |-> loadErr, pkgs |-> pkgs, ret |-> r.ret, err |-> r.err]

Candidates ==
    {[Errors |-> e, PkgPath |-> pp, p |-> p] :
        e \in BOOLEAN, pp \in PkgPaths,
        p \in {Nil} \cup {Ptr([Types |-> ts]) : ts \in SUBSET TypeNames}}

CallLookupFromStruct ==
    /\ Idle
    /\ \E rt \in [Name : TypeNames, PkgPath : PkgPaths \cup {"main"}],
          binfo \in {Nil} \cup {Ptr([Path |-> pp]) : pp \in PkgPaths},
          loadErr \in {Nil, ErrLoad},
          pkgs \in Str(MaxPkgs, Candidates) :
          \* what the code does not get to ask for is not drawn
          /\ rt.PkgPath # "main" => binfo = Nil
          /\ (rt.PkgPath = "main" /\ binfo = Nil) => loadErr = Nil
          /\ (loadErr # Nil \/ (rt.PkgPath = "main" /\ binfo = Nil)) => pkgs = <<>>
          /\ call' = LookupFromStructForReflectType(rt, binfo, loadErr, pkgs)
    /\ UNCHANGED <<l, c, heap, last>>

(***************************************************************************)
(* Struct.Doc and Struct.FieldComments.  The indexer keeps, per struct and *)
(* per field, the text of the comment group before the declaration (Doc)   *)
(* and of the one on its line (Comment); the text of no group is "", and   *)
(* so is the text of a group that holds nothing but markers or directives. *)
(***************************************************************************)
DocChars == {" ", "\n", "a"}
FieldNames == {"A", "_"}

\* a comment group of the syntax tree: none, or its text
Groups == {Nil} \cup {Ptr(t) : t \in Str(MaxDocLen, DocChars)}

\* the comment groups of a field: none, one without text, two with text
FieldGroups == {Nil, Ptr(<<>>), Ptr(<<"a", "\n">>), Ptr(<<" ", "b">>)}

\* ast.CommentGroup.Text(), as the indexer stores it
Text(group) == IF group = Nil THEN <<>> ELSE group[1]

FieldDecls == [Name : FieldNames, Doc : FieldGroups, Comment : FieldGroups]

\* the field lists of a struct declaration: only the blank name may repeat
StructDecls ==
    {ds \in Str(MaxFields, FieldDecls) :
        \A i, j \in 1..Len(ds) : (ds[i].Name = ds[j].Name /\ i # j) => ds[i].Name = "_"}

\* the field of the record for a declared field
CollectedField(d) == [Name |-> d.Name, Doc |-> Text(d.Doc), Comment |-> Text(d.Comment)]

\* a slip: the trailing comment first
SelectCommentTrailingFirst(x) == TrimSpace(IF x.Comment = <<>> THEN x.Doc ELSE x.Comment)

\* doc := x.Doc; if doc == "" { doc = x.Comment }; strings.TrimSpace(doc)
SelectComment(x) == TrimSpace(IF x.Doc = <<>> THEN x.Comment ELSE x.Doc)

\* Struct.Doc()
Doc(st) == SelectComment(st.Raw)

RECURSIVE FieldCommentsLoopSkipping(_, _, _)
\* a slip: a field without any comment gets no entry
FieldCommentsLoopSkipping(comments, fields, i) ==
    IF i > Len(fields) THEN comments
    ELSE LET f == fields[i]
             doc == SelectComment(f)
         IN  IF doc = <<>>
             THEN FieldCommentsLoopSkipping(comments, fields, i + 1)
             ELSE FieldCommentsLoopSkipping(
                    [n \in DOMAIN comments \cup {f.Name} |->
                        IF n = f.Name THEN doc ELSE comments[n]],
                    fields, i + 1)

RECURSIVE FieldCommentsLoop(_, _, _)
\* for _, f := range s.Raw.Fields { ...; comments[f.Name] = strings.TrimSpace(doc) }
FieldCommentsLoop(comments, fields, i) ==
    IF i > Len(fields) THEN comments
    ELSE LET f == fields[i] IN
         FieldCommentsLoop(
            [n \in DOMAIN comments \cup {f.Name} |->
                IF n = f.Name THEN SelectComment(f) ELSE comments[n]],
            fields, i + 1)

\* Struct.FieldComments()
FieldComments(st) == FieldCommentsLoop(<<>>, st.Raw.Fields, 1)

\* the Structs a lookup returns
Structs == {[Raw |-> StructRecord(i, n)] : i \in 1..MaxPkgs, n \in TypeNames}

CallDoc ==
    /\ Idle
    /\ \E s \in Structs, doc \in Groups, comment \in Groups :
          LET d == [Name |-> s.Raw.name, Doc |-> doc, Comment |-> comment]
              st == [Raw |-> [key |-> s.Raw, Doc |-> Text(doc),
                              Comment |-> Text(comment)]]
          IN  call' = [op |-> "Struct.Doc", s |-> st, declared |-> d, ret |-> Doc(st)]
    /\ UNCHANGED <<l, c, heap, last>>

CallFieldComments ==
    /\ Idle
    /\ \E s \in Structs, ds \in StructDecls :
          LET st == [Raw |-> [key |-> s.Raw,
                              Fields |-> [i \in 1..Len(ds) |-> CollectedField(ds[i])]]]
          IN  call' = [op |-> "Struct.FieldComments", s |-> st, declared |-> ds,
                       ret |-> FieldComments(st)]
    /\ UNCHANGED <<l, c, heap, last>>

\* the caller drops what the last call returned
Return ==
    /\ ~Idle
    /\ call' = [op |-> "none"]
    /\ UNCHANGED <<l, c, heap, last>>

(***************************************************************************)
(* reflectshape.Config.  heap holds the objects Extract constructs, and a  *)
(* pointer is an index into it; last counts the Extract calls and keeps    *)
(* the Extractor the last one was handed to.                               *)
(***************************************************************************)
DocTruncationSize == 10

DocTruncationSizes == {0, 5, DocTruncationSize}

Configs ==
    [SkipComments : BOOLEAN, IncludeGoTestFiles : BOOLEAN,
     DocTruncationSize : DocTruncationSizes, extractor : {Nil}, lookup : {Nil}]

\* a slip: the session is built again on every call that wants comments
ExtractRebuilding ==
    /\ last.n < MaxCalls
    /\ LET c1 == IF c.DocTruncationSize = 0
                 THEN [c EXCEPT !.DocTruncationSize = DocTruncationSize] ELSE c
           newLookup == ~c1.SkipComments
           heap1 == IF newLookup
                    THEN Append(heap, [kind |-> "Lookup",
                                       v |-> Configured(NewLookup(Len(heap) + 1),
                                                        c1.IncludeGoTestFiles)])
                    ELSE heap
           c2 == IF newLookup THEN [c1 EXCEPT !.lookup = Ptr(Len(heap1))] ELSE c1
           newExtractor == c2.extractor = Nil
           heap2 == IF newExtractor
                    THEN Append(heap1, [kind |-> "Extractor",
                                        v |-> [Config |-> "c", Lookup |-> c2.lookup]])
                    ELSE heap1
           c3 == IF newExtractor THEN [c2 EXCEPT !.extractor = Ptr(Len(heap2))] ELSE c2
       IN  /\ c' = c3
           /\ heap' = heap2
           /\ last' = [n |-> last.n + 1, extractor |-> c3.extractor]
    /\ UNCHANGED <<l, call>>

\* Config.Extract(ob), up to the call of the Extractor
Extract ==
    /\ last.n < MaxCalls
    /\ LET c1 == IF c.DocTruncationSize = 0
                 THEN [c EXCEPT !.DocTruncationSize = DocTruncationSize] ELSE c
           newLookup == c1.lookup = Nil /\ ~c1.SkipComments
           \* the file set is a new one: it is named by the address of its Lookup
           heap1 == IF newLookup
                    THEN Append(heap, [kind |-> "Lookup",
                                       v |-> Configured(NewLookup(Len(heap) + 1),
                                                        c1.IncludeGoTestFiles)])
                    ELSE heap
           c2 == IF newLookup THEN [c1 EXCEPT !.lookup = Ptr(Len(heap1))] ELSE c1
           newExtractor == c2.extractor = Nil
           heap2 == IF newExtractor
                    THEN Append(heap1, [kind |-> "Extractor",
                                        v |-> [Config |-> "c", Lookup |-> c2.lookup]])
                    ELSE heap1
           c3 == IF newExtractor THEN [c2 EXCEPT !.extractor = Ptr(Len(heap2))] ELSE c2
       IN  /\ c' = c3
           /\ heap' = heap2
           /\ last' = [n |-> last.n + 1, extractor |-> c3.extractor]
    /\ UNCHANGED <<l, call>>

\* the owner of the Config assigns its public fields between two calls
SetFields ==
    /\ \E skip \in BOOLEAN, tests \in BOOLEAN, size \in DocTruncationSizes :
          c' = [c EXCEPT !.SkipComments = skip, !.IncludeGoTestFiles = tests,
                         !.DocTruncationSize = size]
    /\ UNCHANGED <<l, call, heap, last>>

Init ==
    /\ l \in {NewLookup("fset")} \cup {Configured(NewLookup("fset"), b) : b \in BOOLEAN}
    /\ call = [op |-> "none"]
    /\ c = Nil
    /\ heap = <<>>
    /\ last = Nil

Next ==
    \/ CallLookupFromFunc
    \/ CallArgs
    \/ CallReturns
    \/ CallLookupFromStruct
    \/ CallDoc
    \/ CallFieldComments
    \/ Return

\* the metadata package: lookups and accessors on one Lookup
Spec == Init /\ [][Next]_vars

InitConfig ==
    /\ l = NewLookup("fset")
    /\ call = [op |-> "none"]
    /\ c \in Configs
    /\ heap = <<>>
    /\ last = [n |-> 0, extractor |-> Nil]

NextConfig ==
    \/ Extract
    \/ SetFields

\* one Config: Extract calls, and assignments to its fields between them
SpecConfig == InitConfig /\ [][NextConfig]_vars

(***************************************************************************)
(*                              The claims                                 *)
(***************************************************************************)

\* r is t without the white space around it
IsTrimmed(r, t) ==
    /\ r = <<>> \/ (r[1] \notin WhiteSpace /\ r[Len(r)] \notin WhiteSpace)
    /\ \E i \in 1..(Len(t) + 1) :
          /\ i + Len(r) - 1 <= Len(t)
          /\ r = SubSeq(t, i, i + Len(r) - 1)
          /\ \A k \in 1..Len(t) : (k < i \/ k >= i + Len(r)) => t[k] \in WhiteSpace

\* C1: Args() of a function record has one element per declared parameter,
\* in declaration order, the i-th being the i-th parameter's name and "" for
\* an unnamed one, whether there are no parameters or the last one is
\* variadic; Returns() is the same for the declared results.
C1_ArgsFollowDeclaration ==
    call.op \in {"Func.Args", "Func.Returns"} =>
        /\ Len(call.ret) = Len(call.declared.names)
        /\ \A i \in 1..Len(call.declared.names) : call.ret[i] = call.declared.names[i]

\* a variadic function of MaxArgs parameters, the second one unnamed
C1_Witness ==
    /\ call.op = "Func.Args"
    /\ call.declared.variadic
    /\ Len(call.declared.names) = MaxArgs
    /\ call.declared.names[1] = "a" /\ call.declared.names[2] = ""
    /\ call.ret[1] = "a" /\ call.ret[2] = ""
    /\ Len(call.ret) = MaxArgs

\* the fields of a struct declaration that share their name with no other
Alone(ds, i) == \A j \in 1..Len(ds) : ds[j].Name = ds[i].Name => j = i

\* the claim's selection: the leading comment whenever there is one
PresentFirst(d, r) ==
    IF d.Doc # Nil THEN IsTrimmed(r, d.Doc[1])
    ELSE IF d.Comment # Nil THEN IsTrimmed(r, d.Comment[1])
    ELSE r = <<>>

\* C2 as claimed: Struct.Doc, and the FieldComments entry of each field, is
\* the trimmed leading doc comment whenever one is present, whatever it
\* holds; the trimmed trailing comment only when there is none; "" when
\* there is neither.
C2_PresentDocAlwaysWins ==
    /\ call.op = "Struct.Doc" => PresentFirst(call.declared, call.ret)
    /\ call.op = "Struct.FieldComments" =>
          \A i \in 1..Len(call.declared) :
              /\ call.declared[i].Name \in DOMAIN call.ret
              /\ PresentFirst(call.declared[i], call.ret[call.declared[i].Name])

\* the selection by text: the leading comment whenever it has text
TextFirst(d, r) ==
    IF Text(d.Doc) # <<>> THEN IsTrimmed(r, Text(d.Doc))
    ELSE IsTrimmed(r, Text(d.Comment))

\* C2 as amended: Struct.Doc, and the FieldComments entry of each field whose
\* name no other field of the struct shares, is the trimmed leading doc
\* comment whenever that comment has text, whether a trailing comment exists
\* or not; the trimmed trailing comment when there is no leading comment or
\* it has no text; "" when neither has text.
C2_DocWithTextWins ==
    /\ call.op = "Struct.Doc" => TextFirst(call.declared, call.ret)
    /\ call.op = "Struct.FieldComments" =>
          \A i \in 1..Len(call.declared) :
              Alone(call.declared, i) =>
                  /\ call.declared[i].Name \in DOMAIN call.ret
                  /\ TextFirst(call.declared[i], call.ret[call.declared[i].Name])

\* a struct with a leading and a trailing comment, both with text and white
\* space around it, that differ: Doc is the leading one, trimmed
C2_Witness ==
    /\ call.op = "Struct.Doc"
    /\ call.declared.Doc = Ptr(<<"a", "\n">>)
    /\ call.declared.Comment = Ptr(<<" ", "a">>)
    /\ call.ret = <<"a">>

StructCall == call.op = "LookupFromStructForReflectType"

\* packages.Load was called and returned candidates
Loaded ==
    /\ StructCall
    /\ call.rt.PkgPath = "main" => call.binfo # Nil
    /\ call.loadErr = Nil

\* the path of the package that declares the type: for a type of the entry
\* package, the path the build info records
DeclaringPath ==
    IF call.rt.PkgPath = "main" THEN call.binfo[1].Path ELSE call.rt.PkgPath

\* candidate i has no load errors and the declaring path
Eligible(i) == ~call.pkgs[i].Errors /\ call.pkgs[i].PkgPath = DeclaringPath

\* ... and its index holds the type name
Qualifies(i) ==
    /\ Eligible(i)
    /\ call.pkgs[i].p # Nil
    /\ call.rt.Name \in call.pkgs[i].p[1].Types

\* ... but the indexer failed on it
Unindexed(i) == Eligible(i) /\ call.pkgs[i].p = Nil

\* C3: a Struct comes only from a candidate without load errors whose path
\* is the declaring path, and from the first such candidate, in load order,
\* whose index holds the type name; candidates with load errors or another
\* path are skipped and never abort the lookup; the lookup is NotFound only
\* when no candidate qualifies.
C3_FirstQualifyingCandidate ==
    Loaded =>
        /\ call.ret # Nil =>
              LET i == call.ret[1].Raw.pkg IN
              /\ i \in 1..Len(call.pkgs)
              /\ Qualifies(i)
              /\ \A j \in 1..(i - 1) : ~Qualifies(j)
              /\ call.ret[1].Raw.name = call.rt.Name
              /\ call.err = Nil
        /\ \A i \in 1..Len(call.pkgs) :
              (Qualifies(i) /\ \A j \in 1..(i - 1) : ~Unindexed(j)) => call.ret # Nil
        /\ ErrorsIs(call.err, ErrNotFound) => \A i \in 1..Len(call.pkgs) : ~Qualifies(i)

\* the first candidate has the path and the type but load errors, the second
\* qualifies: the Struct is the second one's
C3_Witness ==
    /\ Loaded
    /\ Len(call.pkgs) = 2
    /\ call.pkgs[1].Errors /\ call.pkgs[1].PkgPath = DeclaringPath
    /\ call.pkgs[1].p # Nil /\ call.rt.Name \in call.pkgs[1].p[1].Types
    /\ Qualifies(2)
    /\ call.ret # Nil /\ call.ret[1].Raw.pkg = 2

\* packages.Load returned, and the type name is in the index of no candidate
\* without load errors at the declaring path
Absent ==
    /\ Loaded
    /\ \A i \in 1..Len(call.pkgs) :
          Eligible(i) => (call.pkgs[i].p # Nil /\ call.rt.Name \notin call.pkgs[i].p[1].Types)

\* C4: when the type name is absent from every loaded candidate without load
\* errors at the declaring path, the lookup returns nil and an error that
\* wraps ErrNotFound; a Struct is returned only for a type name its
\* candidate's index holds, and no lookup returns nil with a nil error or a
\* Struct with an error.
C4_AbsentIsNotFound ==
    /\ Absent => (call.ret = Nil /\ ErrorsIs(call.err, ErrNotFound))
    /\ StructCall =>
          /\ (call.ret = Nil) # (call.err = Nil)
          /\ call.ret # Nil =>
                call.rt.Name \in call.pkgs[call.ret[1].Raw.pkg].p[1].Types

\* two candidates without load errors at the declaring path, neither with
\* the type: nil and ErrNotFound
C4_Witness ==
    /\ Absent
    /\ Len(call.pkgs) = 2
    /\ Eligible(1) /\ Eligible(2)
    /\ call.pkgs[1].p[1].Types # {}
    /\ call.ret = Nil
    /\ ErrorsIs(call.err, ErrNotFound)

\* C9: for a type whose package path is "main", the package loaded and
\* matched is the one the build info names, so the type is found in it;
\* without build info the lookup is ErrNotFound with a nil result, and
\* packages.Load is not called.
C9_MainResolvedByBuildInfo ==
    (StructCall /\ call.rt.PkgPath = "main") =>
        IF call.binfo = Nil
        THEN /\ call.ret = Nil
             /\ ErrorsIs(call.err, ErrNotFound)
             /\ call.loaded = Nil
        ELSE /\ call.loaded = Ptr(call.binfo[1].Path)
             /\ call.ret # Nil =>
                   call.pkgs[call.ret[1].Raw.pkg].PkgPath = call.binfo[1].Path
             /\ \A i \in 1..Len(call.pkgs) :
                   ( /\ ~call.pkgs[i].Errors
                     /\ call.pkgs[i].PkgPath = call.binfo[1].Path
                     /\ call.pkgs[i].p # Nil
                     /\ call.rt.Name \in call.pkgs[i].p[1].Types
                     /\ \A j \in 1..(i - 1) : call.pkgs[j].p # Nil )
                   => call.ret # Nil

\* a type of the entry package, found in the package the build info names
C9_Witness ==
    /\ StructCall
    /\ call.rt = [Name |-> "User", PkgPath |-> "main"]
    /\ call.binfo = Ptr([Path |-> "x/app"])
    /\ call.loaded = Ptr("x/app")
    /\ Len(call.pkgs) = 1
    /\ call.ret = Ptr([Raw |-> StructRecord(1, "User")])

FuncCall == call.op = "LookupFromFuncForPC"

\* the kinds of failure of a function lookup
NotResolvable == call.err # Nil /\ call.err[1].msg = "cannot find runtime.Func"
UnexpectedSymbolForm == call.err # Nil /\ call.err[1].msg = "unexpected func"
NotFound == ErrorsIs(call.err, ErrNotFound)
SourceUnreadable == call.err # Nil /\ call.err[1].msg = ErrParse[1].msg
IndexFailed == call.err # Nil /\ call.err[1].msg = ErrCollect[1].msg

\* the part of a symbol after its last "/" holds no "."
NoDotInLastSegment(sym) ==
    \A k \in 1..Len(sym) : sym[k] = "." => \E j \in (k + 1)..Len(sym) : sym[j] = "/"

\* C5 as claimed: a function lookup ends with a Func and no error, or with
\* no Func and an error that is NotResolvable, UnexpectedSymbolForm or
\* NotFound, and in no other way.
C5_FourOutcomes ==
    FuncCall =>
        \/ call.ret # Nil /\ call.err = Nil
        \/ call.ret = Nil /\ (NotResolvable \/ UnexpectedSymbolForm \/ NotFound)

\* C5 as amended: a function lookup ends with a Func and no error, or with
\* no Func and an error of exactly one of five kinds: NotResolvable (the
\* runtime has no symbol for the address), the parser's error (the file of
\* the function cannot be read), the indexer's error, UnexpectedSymbolForm
\* (the last segment of the symbol has no "."), or NotFound.  It never
\* returns both a Func and an error, or neither.
C5_SixOutcomes ==
    FuncCall =>
        /\ (call.ret = Nil) # (call.err = Nil)
        /\ call.err # Nil =>
              Cardinality({k \in 1..5 :
                  \/ k = 1 /\ NotResolvable
                  \/ k = 2 /\ SourceUnreadable
                  \/ k = 3 /\ IndexFailed
                  \/ k = 4 /\ UnexpectedSymbolForm
                  \/ k = 5 /\ NotFound}) = 1
        /\ NotResolvable <=> call.rfunc = Nil
        /\ SourceUnreadable <=> (call.rfunc # Nil /\ call.f = Nil)
        /\ IndexFailed <=> (call.f # Nil /\ call.p = Nil)
        /\ UnexpectedSymbolForm <=> (call.p # Nil /\ NoDotInLastSegment(call.rfunc[1]))

\* the symbol of a declared function whose file cannot be read: no Func, and
\* the parser's error, which is none of the three kinds
C5_Witness ==
    /\ FuncCall
    /\ call.rfunc = Ptr(FuncSym(<<"a", "/">>, <<"F">>))
    /\ call.f = Nil
    /\ call.ret = Nil
    /\ SourceUnreadable
    /\ ~(NotResolvable \/ UnexpectedSymbolForm \/ NotFound)

\* C6: the pointer-receiver symbol pkg.(*T).m and the value-receiver symbol
\* pkg.T.m are both taken apart into the receiver T and the name m, and
\* both select the method record m of the type T, with Recv = T.
C6_ReceiverMarkersStripped ==
    (FuncCall /\ call.p # Nil) =>
        \A pre \in Prefixes, t \in Idents, m \in Idents :
            call.rfunc[1] \in {PtrSym(pre, t, m), ValueSym(pre, t, m)} =>
                LET has == t \in DOMAIN call.p[1].Types /\ m \in call.p[1].Types[t] IN
                /\ Demangle(PtrSym(pre, t, m)) = Demangle(ValueSym(pre, t, m))
                /\ Demangle(call.rfunc[1]) = [isFunc |-> TRUE, isMethod |-> TRUE,
                                              recv |-> t, name |-> m]
                /\ has => /\ call.err = Nil
                          /\ call.ret = Ptr([pc |-> call.pc, Raw |-> MethodRecord(t, m),
                                             Recv |-> t])
                /\ ~has => (call.ret = Nil /\ NotFound)

\* the pointer-receiver symbol of a declared method, behind an import path
\* with a "." in it: the method record, Recv without the markers
C6_Witness ==
    /\ FuncCall
    /\ call.rfunc = Ptr(PtrSym(<<"a", ".", "b", "/">>, <<"T">>, <<"m">>))
    /\ call.ret # Nil
    /\ call.ret[1].Raw = MethodRecord(<<"T">>, <<"m">>)
    /\ call.ret[1].Recv = <<"T">>

\* C7 as claimed: a symbol with the suffix of a function literal
\* (pkg.F.func1) or of a method value (pkg.T.m-fm) is taken for a
\* non-method: the receiver is empty and the lookup goes through the
\* function table, not through the method table of a receiver type.
C7_SyntheticSuffixIsNoMethod ==
    (FuncCall /\ call.p # Nil) =>
        \A pre \in Prefixes, t \in Idents, m \in Idents :
            call.rfunc[1] \in {ClosureSym(pre, t), MethodValueSym(pre, t, m)} =>
                /\ ~Demangle(call.rfunc[1]).isMethod
                /\ Demangle(call.rfunc[1]).recv = <<>>
                /\ call.ret = Nil => call.err[1].msg = "lookup metadata of function"
                /\ call.ret # Nil => call.ret[1].Raw.table = "Functions"

\* the addresses of the objects of one kind
Objects(kind) == {a \in 1..Len(heap) : heap[a].kind = kind}

\* what holds of one Config whatever was called on it
SessionState ==
    /\ Cardinality(Objects("Lookup")) <= 1
    /\ Cardinality(Objects("Extractor")) = IF last.n = 0 THEN 0 ELSE 1
    /\ c.lookup # Nil =>
          /\ c.lookup[1] \in Objects("Lookup")
          /\ heap[c.lookup[1]].v.IncludeUnexported
    /\ c.extractor # Nil => c.extractor[1] \in Objects("Extractor")
    /\ last.n > 0 => (c.extractor # Nil /\ last.extractor = c.extractor)

\* what holds of one step: an Extract call or an assignment to the fields
SessionStep ==
    \* once constructed, neither object is replaced or changed
    /\ c.lookup # Nil =>
          (c'.lookup = c.lookup /\ heap'[c.lookup[1]] = heap[c.lookup[1]])
    /\ c.extractor # Nil =>
          (c'.extractor = c.extractor /\ heap'[c.extractor[1]] = heap[c.extractor[1]])
    \* a session is constructed only when comments are wanted, with the flags
    \* of that moment
    /\ Objects("Lookup")' # Objects("Lookup") =>
          /\ ~c.SkipComments
          /\ c'.lookup # Nil
          /\ heap'[c'.lookup[1]].v.IncludeGoTestFiles = c.IncludeGoTestFiles
          /\ heap'[c'.lookup[1]].v.IncludeUnexported
    \* the first call constructs the Extractor, and every call is handed to it
    /\ last'.n # last.n =>
          /\ c'.extractor # Nil
          /\ last'.extractor = c'.extractor
          /\ (last.n = 0) = (c.extractor = Nil)

\* C10: over any sequence of Extract calls on one Config, with its public
\* fields assigned between the calls, the Lookup is constructed at most once
\* and never while SkipComments is true, the Extractor exactly once, on the
\* first call; neither is replaced afterwards, the Lookup keeps the flags it
\* was constructed with (IncludeGoTestFiles as the Config had it then,
\* IncludeUnexported true), and every call is handed to the one Extractor.
C10_SessionBuiltOnce == []SessionState /\ [][SessionStep]_vars

\* MaxCalls calls, the first of them with SkipComments set: the Extractor
\* was built without a Lookup, the Lookup later, and the Config's fields
\* have since moved away from the Lookup's flags
C10_Witness ==
    /\ last.n = MaxCalls
    /\ c.lookup # Nil
    /\ c.SkipComments
    /\ heap[c.lookup[1]].v.IncludeGoTestFiles # c.IncludeGoTestFiles
    /\ heap[c.extractor[1]].v.Lookup = Nil
    /\ Len(heap) = 2

=============================================================================
